---- MODULE Spec2Model ----
(***************************************************************************)
(* Model of js-peer-id (src/src/index.js): the PeerId entity, its          *)
(* accessors, the protobuf key codec (keyMarshal / keyUnmarshal /          *)
(* formatKey) and the seven factory functions.                             *)
(*                                                                         *)
(* JavaScript values are tagged records [t, v]: a Buffer carries a         *)
(* sequence of bytes (0..255), a string a sequence of one-character        *)
(* strings, undefined and null carry nothing.  A call's result is an       *)
(* outcome: Ok(value) or Throw(error name).                                *)
(*                                                                         *)
(* The libraries index.js calls (Buffer, bs58, multihashing, node-forge,   *)
(* protocol-buffers) are modelled by what they compute; sha2-256 and the   *)
(* RSA arithmetic are stood in for by small deterministic functions.       *)
(***************************************************************************)
EXTENDS Integers, Sequences, FiniteSets, TLC

VARIABLES held, prev, last

vars == <<held, prev, last>>

(***************************************************************************)
(* Bounds of the explored inputs.                                          *)
(***************************************************************************)
\* longest raw id handed to createFromBytes
MaxIdLen == 2
\* longest text handed to createFromHexString / createFromB58String
MaxStrLen == 2
\* longest payload handed to keyMarshal
MaxPayloadLen == 2

(***************************************************************************)
(* JavaScript values and call outcomes.                                    *)
(***************************************************************************)
Buf(b) == [t |-> "buffer", v |-> b]

Str(s) == [t |-> "string", v |-> s]

Undefined == [t |-> "undefined", v |-> <<>>]

Null == [t |-> "null", v |-> <<>>]

IsBuf(x) == x.t = "buffer"

IsStr(x) == x.t = "string"

IsAbsent(x) == x.t \in {"undefined", "null"}

Ok(v) == [kind |-> "ok", val |-> v]

Throw(e) == [kind |-> "throw", val |-> e]

IsOk(o) == o.kind = "ok"

\* sequences over S of length 0..n
RECURSIVE SeqsUpTo(_, _)
SeqsUpTo(S, n) ==
  IF n = 0 THEN {<<>>}
  ELSE LET shorter == SeqsUpTo(S, n - 1)
       IN  shorter \cup {Append(s, x) : s \in {r \in shorter : Len(r) = n - 1}, x \in S}

\* position of c in alphabet, 0 when it is not there
IndexOf(alphabet, c) ==
  IF \E i \in 1..Len(alphabet) : alphabet[i] = c
  THEN CHOOSE i \in 1..Len(alphabet) : alphabet[i] = c
  ELSE 0

HexAlphabet ==
  <<
    "0", "1", "2", "3", "4", "5", "6", "7", "8", "9", "a", "b", "c", "d", "e", "f"
  >>

B58Alphabet ==
  <<
    "1", "2", "3", "4", "5", "6", "7", "8", "9", "A", "B", "C", "D", "E", "F", "G",
    "H", "J", "K", "L", "M", "N", "P", "Q", "R", "S", "T", "U", "V", "W", "X", "Y",
    "Z", "a", "b", "c", "d", "e", "f", "g", "h", "i", "j", "k", "m", "n", "o", "p",
    "q", "r", "s", "t", "u", "v", "w", "x", "y", "z"
  >>

B64Alphabet ==
  <<
    "A", "B", "C", "D", "E", "F", "G", "H", "I", "J", "K", "L", "M", "N", "O", "P",
    "Q", "R", "S", "T", "U", "V", "W", "X", "Y", "Z", "a", "b", "c", "d", "e", "f",
    "g", "h", "i", "j", "k", "l", "m", "n", "o", "p", "q", "r", "s", "t", "u", "v",
    "w", "x", "y", "z", "0", "1", "2", "3", "4", "5", "6", "7", "8", "9", "+", "/"
  >>

(***************************************************************************)
(* Buffer <-> 'hex' text (Node's Buffer).                                  *)
(***************************************************************************)
Min(S) == CHOOSE x \in S : \A y \in S : x <= y

Max(S) == CHOOSE x \in S : \A y \in S : x >= y

HexUpper == <<"A", "B", "C", "D", "E", "F">>

\* value of one hex digit, -1 for any other character
HexVal(c) ==
  IF IndexOf(HexAlphabet, c) > 0 THEN IndexOf(HexAlphabet, c) - 1
  ELSE IF IndexOf(HexUpper, c) > 0 THEN IndexOf(HexUpper, c) + 9
  ELSE -1

\* buf.toString('hex'): two lowercase digits per byte
HexEncode(b) ==
  [i \in 1..(2 * Len(b)) |->
     IF i % 2 = 1 THEN HexAlphabet[(b[(i + 1) \div 2] \div 16) + 1]
     ELSE HexAlphabet[(b[i \div 2] % 16) + 1]] \o <<>>

\* the bytes of the longest prefix of whole, valid digit pairs
HexDecodePrefix(s) ==
  LET bad == {k \in 1..(Len(s) \div 2) : HexVal(s[2 * k - 1]) < 0 \/ HexVal(s[2 * k]) < 0}
      good == IF bad = {} THEN Len(s) \div 2 ELSE Min(bad) - 1
  IN  [k \in 1..good |-> HexVal(s[2 * k - 1]) * 16 + HexVal(s[2 * k])] \o <<>>

WellFormedHex(s) ==
  /\ Len(s) % 2 = 0
  /\ \A i \in 1..Len(s) : HexVal(s[i]) >= 0

(***************************************************************************)
(* Buffer <-> 'base64' text (Node's Buffer).                               *)
(***************************************************************************)
B64Char(n) == B64Alphabet[n + 1]

\* buf.toString('base64'): three bytes to four characters, '=' padded
Base64Encode(b) ==
  LET n == Len(b)
      byte(k) == IF k <= n THEN b[k] ELSE 0
      char(i) ==
        LET g == (i - 1) \div 4
            b1 == byte(3 * g + 1)
            b2 == byte(3 * g + 2)
            b3 == byte(3 * g + 3)
        IN  CASE (i - 1) % 4 = 0 -> B64Char(b1 \div 4)
              [] (i - 1) % 4 = 1 -> B64Char((b1 % 4) * 16 + b2 \div 16)
              [] (i - 1) % 4 = 2 ->
                   IF 3 * g + 2 > n THEN "=" ELSE B64Char((b2 % 16) * 4 + b3 \div 64)
              [] OTHER -> IF 3 * g + 3 > n THEN "=" ELSE B64Char(b3 % 64)
  IN  [i \in 1..(4 * ((n + 2) \div 3)) |-> char(i)] \o <<>>

\* new Buffer(str, 'base64'): never throws; the text is read up to its '='
\* padding (the texts decoded here hold no other foreign character)
Base64Decode(s) ==
  LET bad == {i \in 1..Len(s) : IndexOf(B64Alphabet, s[i]) = 0}
      n == IF bad = {} THEN Len(s) ELSE Min(bad) - 1
      q(i) == IF i <= n THEN IndexOf(B64Alphabet, s[i]) - 1 ELSE 0
      byte(j) ==
        LET g == (j - 1) \div 3
            q1 == q(4 * g + 1)
            q2 == q(4 * g + 2)
            q3 == q(4 * g + 3)
            q4 == q(4 * g + 4)
        IN  CASE (j - 1) % 3 = 0 -> q1 * 4 + q2 \div 16
              [] (j - 1) % 3 = 1 -> (q2 % 16) * 16 + q3 \div 4
              [] OTHER -> (q3 % 4) * 64 + q4
  IN  [j \in 1..((n * 6) \div 8) |-> byte(j)] \o <<>>

(***************************************************************************)
(* bs58: base58 text of a byte sequence.  bs58 multiplies a little-endian  *)
(* digit array by 256 and adds the next byte, carrying as it goes; here    *)
(* up to three bytes are taken per step and the carries settle in rounds,  *)
(* which yields the same digits.                                           *)
(***************************************************************************)
\* every digit keeps its remainder and takes the carry of the one below
CarryRound(c, base) ==
  [k \in 1..(Len(c) + 1) |->
     (IF k <= Len(c) THEN c[k] % base ELSE 0) + (IF k > 1 THEN c[k - 1] \div base ELSE 0)]
  \o <<>>

\* without the zeros at the top; one digit at least
Trim(c) ==
  LET top == {k \in 1..Len(c) : c[k] # 0}
  IN  SubSeq(c, 1, IF top = {} THEN 1 ELSE Max(top))

RECURSIVE Normalize(_, _)
Normalize(c, base) ==
  IF \A k \in 1..Len(c) : c[k] < base THEN Trim(c)
  ELSE Normalize(CarryRound(c, base), base)

\* digits * mul + add, kept in the given base
MulAdd(ds, mul, add, base) ==
  Normalize([k \in 1..Len(ds) |-> ds[k] * mul + (IF k = 1 THEN add ELSE 0)] \o <<>>, base)

Reverse(s) == [i \in 1..Len(s) |-> s[Len(s) + 1 - i]] \o <<>>

Zeros(n) == [i \in 1..n |-> 0] \o <<>>

\* how many z the sequence starts with, its last element never counted
LeadingCount(s, z) ==
  LET other == {i \in 1..(Len(s) - 1) : s[i] # z}
  IN  IF s = <<>> THEN 0 ELSE IF other = {} THEN Len(s) - 1 ELSE Min(other) - 1

RECURSIVE B58Digits(_, _)
B58Digits(b, ds) ==
  IF b = <<>> THEN ds
  ELSE IF Len(b) = 1 THEN MulAdd(ds, 256, b[1], 58)
  ELSE IF Len(b) = 2 THEN MulAdd(ds, 65536, b[1] * 256 + b[2], 58)
  ELSE LET next == MulAdd(ds, 16777216, b[1] * 65536 + b[2] * 256 + b[3], 58)
       IN  IF Len(next) > 0 THEN B58Digits(SubSeq(b, 4, Len(b)), next) ELSE next

\* base58.encode(buffer)
B58Encode(b) ==
  IF b = <<>> THEN <<>>
  ELSE LET digits == Reverse(B58Digits(b, <<0>>) \o Zeros(LeadingCount(b, 0)))
       IN  [i \in 1..Len(digits) |-> B58Alphabet[digits[i] + 1]] \o <<>>

B58Val(c) == IndexOf(B58Alphabet, c) - 1

RECURSIVE B58Bytes(_, _)
B58Bytes(s, bs) ==
  IF s = <<>> THEN bs
  ELSE IF Len(s) = 1 THEN MulAdd(bs, 58, B58Val(s[1]), 256)
  ELSE IF Len(s) = 2 THEN MulAdd(bs, 3364, B58Val(s[1]) * 58 + B58Val(s[2]), 256)
  ELSE LET next == MulAdd(bs, 195112,
                          B58Val(s[1]) * 3364 + B58Val(s[2]) * 58 + B58Val(s[3]), 256)
       IN  IF Len(next) > 0 THEN B58Bytes(SubSeq(s, 4, Len(s)), next) ELSE next

ValidB58(s) == \A i \in 1..Len(s) : IndexOf(B58Alphabet, s[i]) > 0

\* base58.decode(string): throws on a character outside the alphabet
B58Decode(s) ==
  IF ~ValidB58(s) THEN Throw("Error")
  ELSE IF s = <<>> THEN Ok(<<>>)
  ELSE Ok(Reverse(B58Bytes(s, <<0>>) \o Zeros(LeadingCount(s, "1"))))

(***************************************************************************)
(* multihashing(buf, 'sha2-256'): the multihash header (function code      *)
(* 0x12, digest length 0x20) followed by the 32-byte digest.  The digest   *)
(* is a stand-in for sha2-256: deterministic, 32 bytes, dependent on every *)
(* byte and its position.                                                  *)
(***************************************************************************)
RECURSIVE Absorb(_, _, _)
Absorb(b, lo, hi) ==
  IF lo > hi THEN 0
  ELSE IF lo = hi THEN ((b[lo] + 1) * (lo * lo + 7)) % 65521
  ELSE (Absorb(b, lo, (lo + hi) \div 2) + Absorb(b, (lo + hi) \div 2 + 1, hi)) % 65521

Sha256(b) ==
  LET h == Absorb(b, 1, Len(b))
  IN  [i \in 1..32 |-> ((h + i) * (2 * i + 1) + Len(b)) % 256] \o <<>>

multihashing(b) == <<18, 32>> \o Sha256(b)

(***************************************************************************)
(* protocol-buffers: the key record schema (protos/crypto.proto), a        *)
(* message of two required fields, Type (enum, field 1, RSA = 0) and Data  *)
(* (bytes, field 2).  PublicKey and PrivateKey share the one wire schema.  *)
(***************************************************************************)
RECURSIVE Varint(_)
Varint(n) == IF n < 128 THEN <<n>> ELSE <<128 + (n % 128)>> \o Varint(n \div 128)

\* the varint at the front of b: its value and width, width 0 when cut short
RECURSIVE ReadVarint(_)
ReadVarint(b) ==
  IF b = <<>> THEN [val |-> 0, used |-> 0]
  ELSE IF Head(b) < 128 THEN [val |-> Head(b), used |-> 1]
  ELSE LET r == ReadVarint(Tail(b))
       IN  IF r.used = 0 THEN r
           ELSE [val |-> (Head(b) - 128) + 128 * r.val, used |-> r.used + 1]

PbEncode(m) ==
  <<8>> \o Varint(m.Type) \o <<18>> \o Varint(Len(m.Data.v)) \o m.Data.v

\* the fields of b folded into acc; ok is FALSE on a cut or foreign field
RECURSIVE PbFields(_, _)
PbFields(b, acc) ==
  IF b = <<>> THEN acc
  ELSE IF Head(b) = 8 THEN
    LET r == ReadVarint(Tail(b))
    IN  IF r.used = 0 THEN [acc EXCEPT !.ok = FALSE]
        ELSE PbFields(SubSeq(b, 2 + r.used, Len(b)),
                      [acc EXCEPT !.Type = r.val, !.hasType = TRUE])
  ELSE IF Head(b) = 18 THEN
    LET r == ReadVarint(Tail(b))
    IN  IF r.used = 0 \/ 1 + r.used + r.val > Len(b) THEN [acc EXCEPT !.ok = FALSE]
        ELSE PbFields(SubSeq(b, 2 + r.used + r.val, Len(b)),
                      [acc EXCEPT !.Data = SubSeq(b, 2 + r.used, 1 + r.used + r.val),
                                  !.hasData = TRUE])
  ELSE [acc EXCEPT !.ok = FALSE]

\* decode: throws on truncated input, a field outside the schema, a missing
\* required field or a type tag the enum does not name
PbDecode(b) ==
  LET f == PbFields(b, [ok |-> TRUE, hasType |-> FALSE, hasData |-> FALSE,
                        Type |-> 0, Data |-> <<>>])
  IN  IF f.ok /\ f.hasType /\ f.hasData /\ f.Type = 0
      THEN Ok([Type |-> f.Type, Data |-> Buf(f.Data)])
      ELSE Throw("Error")

\* the name the schema's KeyType enum gives a decoded tag
KeyTypeName(tag) == IF tag = 0 THEN "RSA" ELSE "unknown"

(***************************************************************************)
(* node-forge: RSA keys, their ASN.1 objects and DER.  An ASN.1 object is  *)
(* a node [tag, kids, bytes]; tag 48 (SEQUENCE) is constructed.            *)
(***************************************************************************)
RECURSIVE BigEndian(_)
BigEndian(n) == IF n < 256 THEN <<n>> ELSE BigEndian(n \div 256) \o <<n % 256>>

\* the content of a DER INTEGER: minimal, a zero byte in front of a set top bit
IntBytes(n) == IF Head(BigEndian(n)) >= 128 THEN <<0>> \o BigEndian(n) ELSE BigEndian(n)

RECURSIVE BytesToInt(_, _)
BytesToInt(b, acc) == IF b = <<>> THEN acc ELSE BytesToInt(Tail(b), acc * 256 + Head(b))

DerLen(n) ==
  IF n < 128 THEN <<n>>
  ELSE IF n < 256 THEN <<129, n>>
  ELSE <<130, n \div 256, n % 256>>

Asn1(tag, kids, bytes) == [tag |-> tag, kids |-> kids, bytes |-> bytes]

Asn1Int(n) == Asn1(2, <<>>, IntBytes(n))

RECURSIVE toDer(_)
RECURSIVE toDerAll(_)
\* forge.asn1.toDer(obj)
toDer(obj) ==
  LET content == IF obj.tag = 48 THEN toDerAll(obj.kids) ELSE obj.bytes
  IN  <<obj.tag>> \o DerLen(Len(content)) \o content

toDerAll(objs) == IF objs = <<>> THEN <<>> ELSE toDer(Head(objs)) \o toDerAll(Tail(objs))

\* the length octets at the front of b: value and width, width 0 when malformed
ReadDerLen(b) ==
  IF b = <<>> THEN [val |-> 0, used |-> 0]
  ELSE IF Head(b) < 128 THEN [val |-> Head(b), used |-> 1]
  ELSE IF Head(b) = 129 /\ Len(b) >= 2 THEN [val |-> b[2], used |-> 2]
  ELSE IF Head(b) = 130 /\ Len(b) >= 3 THEN [val |-> b[2] * 256 + b[3], used |-> 3]
  ELSE [val |-> 0, used |-> 0]

NoParse == [ok |-> FALSE, obj |-> Asn1(0, <<>>, <<>>), objs |-> <<>>, rest |-> <<>>]

RECURSIVE ParseDer(_)
RECURSIVE ParseDerAll(_)
\* one object off the front of b
ParseDer(b) ==
  IF Len(b) < 2 THEN NoParse
  ELSE LET l == ReadDerLen(Tail(b))
           first == 2 + l.used
           end == 1 + l.used + l.val
       IN  IF l.used = 0 \/ end > Len(b) THEN NoParse
           ELSE IF Head(b) = 48
           THEN LET k == ParseDerAll(SubSeq(b, first, end))
                IN  IF ~k.ok THEN NoParse
                    ELSE [ok |-> TRUE, obj |-> Asn1(48, k.objs, <<>>), objs |-> <<>>,
                          rest |-> SubSeq(b, end + 1, Len(b))]
           ELSE [ok |-> TRUE, obj |-> Asn1(Head(b), <<>>, SubSeq(b, first, end)),
                 objs |-> <<>>, rest |-> SubSeq(b, end + 1, Len(b))]

ParseDerAll(b) ==
  IF b = <<>> THEN [NoParse EXCEPT !.ok = TRUE]
  ELSE LET h == ParseDer(b)
       IN  IF ~h.ok THEN NoParse
           ELSE LET t == ParseDerAll(h.rest)
                IN  IF ~t.ok THEN NoParse
                    ELSE [NoParse EXCEPT !.ok = TRUE, !.objs = <<h.obj>> \o t.objs]

\* forge.asn1.fromDer(bytes): throws when the bytes are no DER object
fromDer(b) ==
  LET r == ParseDer(b) IN IF r.ok THEN Ok(r.obj) ELSE Throw("Error")

\* rsaEncryption AlgorithmIdentifier: OID 1.2.840.113549.1.1.1 and NULL
RsaAlgorithm ==
  Asn1(48, <<Asn1(6, <<>>, <<42, 134, 72, 134, 247, 13, 1, 1, 1>>), Asn1(5, <<>>, <<>>)>>, <<>>)

\* forge.pki.publicKeyToAsn1(key): SubjectPublicKeyInfo around RSAPublicKey
publicKeyToAsn1(key) ==
  Asn1(48,
       <<RsaAlgorithm,
         Asn1(3, <<>>, <<0>> \o toDer(Asn1(48, <<Asn1Int(key.n), Asn1Int(key.e)>>, <<>>)))>>,
       <<>>)

\* forge.pki.privateKeyToAsn1(key): RSAPrivateKey
privateKeyToAsn1(key) ==
  Asn1(48,
       <<Asn1Int(0), Asn1Int(key.n), Asn1Int(key.e), Asn1Int(key.d), Asn1Int(key.p),
         Asn1Int(key.q), Asn1Int(key.dP), Asn1Int(key.dQ), Asn1Int(key.qInv)>>,
       <<>>)

\* forge.pki.privateKeyFromAsn1(obj): throws unless obj is an RSAPrivateKey
privateKeyFromAsn1(obj) ==
  IF /\ obj.tag = 48
     /\ Len(obj.kids) = 9
     /\ \A i \in 1..9 : obj.kids[i].tag = 2 /\ obj.kids[i].bytes # <<>>
  THEN LET int(i) == BytesToInt(obj.kids[i].bytes, 0)
       IN  Ok([n |-> int(2), e |-> int(3), d |-> int(4), p |-> int(5), q |-> int(6),
               dP |-> int(7), dQ |-> int(8), qInv |-> int(9)])
  ELSE Throw("Error")

\* forge.pki.rsa.setPublicKey(n, e)
setPublicKey(n, e) == [n |-> n, e |-> e]

\* the prime pairs key generation draws from, per requested modulus size
Primes(bits) ==
  IF bits = 2048 THEN {<<61, 53>>, <<11, 13>>} ELSE {<<17, 19>>}

\* the key pair on primes p, q with public exponent e
KeyPair(p, q, e) ==
  LET phi == (p - 1) * (q - 1)
      d == CHOOSE x \in 1..phi : ((e % phi) * x) % phi = 1
  IN  [publicKey |-> [n |-> p * q, e |-> e],
       privateKey |-> [n |-> p * q, e |-> e, d |-> d, p |-> p, q |-> q,
                       dP |-> d % (p - 1), dQ |-> d % (q - 1),
                       qInv |-> CHOOSE x \in 1..(p - 1) : (q * x) % p = 1]]

\* forge.rsa.generateKeyPair({bits, e}): some key pair of that size
generateKeyPair(bits, e) == {KeyPair(pq[1], pq[2], e) : pq \in Primes(bits)}

(***************************************************************************)
(* index.js: the PeerId entity and its accessors.                          *)
(***************************************************************************)
RSA == 0

DefaultBits == 2048

PublicExponent == 65537

\* new PeerId(id, privKey, pubKey); a parameter not passed is undefined
PeerId(id, privKey, pubKey) == [id |-> id, privKey |-> privKey, pubKey |-> pubKey]

\* x.toString('hex'): the hex text of a Buffer; a string is returned as it is;
\* a property read on undefined or null throws
toStringHex(x) ==
  IF IsAbsent(x) THEN Throw("TypeError")
  ELSE IF IsBuf(x) THEN Ok(Str(HexEncode(x.v)))
  ELSE Ok(x)

\* x.toString('base64')
toStringBase64(x) ==
  IF IsAbsent(x) THEN Throw("TypeError")
  ELSE IF IsBuf(x) THEN Ok(Str(Base64Encode(x.v)))
  ELSE Ok(x)

\* toJSON that renders an absent key as empty text instead of failing
toJSON_skipsAbsent(self) ==
  LET text(x) == IF IsAbsent(x) THEN Str(<<>>) ELSE toStringHex(x).val
  IN  Ok([id |-> text(self.id), privKey |-> text(self.privKey), pubKey |-> text(self.pubKey)])

toJSON(self) ==
  LET id == toStringHex(self.id)
      privKey == toStringHex(self.privKey)
      pubKey == toStringHex(self.pubKey)
  IN  IF ~IsOk(id) THEN id
      ELSE IF ~IsOk(privKey) THEN privKey
      ELSE IF ~IsOk(pubKey) THEN pubKey
      ELSE Ok([id |-> id.val, privKey |-> privKey.val, pubKey |-> pubKey.val])

toHexString(self) == toStringHex(self.id)

toBytes(self) == Ok(self.id)

\* toB58String that returns the hex text of the id
toB58String_hex(self) == toStringHex(self.id)

toB58String(self) == Ok(Str(B58Encode(self.id.v)))

(***************************************************************************)
(* index.js: the key codec.                                                *)
(***************************************************************************)
\* pbCrypto.PrivateKey.decode(key)
keyUnmarshal(key) == PbDecode(key.v)

\* keyMarshal that writes 1 for the RSA tag
keyMarshal_wrongTag(data, type) ==
  IF type \in {"Public", "Private"} THEN Buf(PbEncode([Type |-> 1, Data |-> data]))
  ELSE Undefined

\* two independent tests of type; epb stays undefined when neither matches
keyMarshal(data, type) ==
  LET epb1 == IF type = "Public" THEN Buf(PbEncode([Type |-> RSA, Data |-> data]))
              ELSE Undefined
  IN  IF type = "Private" THEN Buf(PbEncode([Type |-> RSA, Data |-> data])) ELSE epb1

\* DER of the ASN.1 object, wrapped by keyMarshal, as base64 text
formatKey(key, type) ==
  LET nDerBuf == Buf(toDer(key))
      marsheledKey == keyMarshal(nDerBuf, type)
  IN  toStringBase64(marsheledKey)

(***************************************************************************)
(* index.js: the factories.  Each yields the set of outcomes a call can    *)
(* have: Ok(identity) or Throw.                                            *)
(***************************************************************************)
\* How new Buffer(str, 'hex') treats malformed text depends on the Node release
\* the package runs on: "strict" throws TypeError('Invalid hex string') on an
\* odd length and on a non-hex character, "oddStrict" throws on an odd length
\* only and otherwise stops at the first bad pair, "lenient" never throws and
\* returns the bytes decoded up to the first bad pair.
HexModes == {"strict", "oddStrict", "lenient"}

\* new Buffer(str, 'hex') under one release
HexWriteIn(mode, s) ==
  IF WellFormedHex(s) THEN Ok(Buf(HexDecodePrefix(s)))
  ELSE IF mode = "strict" \/ (mode = "oddStrict" /\ Len(s) % 2 = 1) THEN Throw("TypeError")
  ELSE Ok(Buf(HexDecodePrefix(s)))

\* new Buffer(x, encoding): a Buffer is copied whatever the encoding, a string
\* is decoded, anything else is refused
NewBuffer(mode, x, encoding) ==
  IF IsBuf(x) THEN Ok(x)
  ELSE IF ~IsStr(x) THEN Throw("TypeError")
  ELSE IF encoding = "hex" THEN HexWriteIn(mode, x.v)
  ELSE Ok(Buf(Base64Decode(x.v)))

\* create that hashes the raw DER of the public key instead of its key record
createWith_hashesDer(pair) ==
  LET asnPub == publicKeyToAsn1(pair.publicKey)
      asnPriv == privateKeyToAsn1(pair.privateKey)
      protoPublic64 == formatKey(asnPub, "Public")
      protoPrivate64 == formatKey(asnPriv, "Private")
  IN  Ok(PeerId(Buf(multihashing(toDer(asnPub))),
                Buf(Base64Decode(protoPrivate64.val.v)),
                Buf(Base64Decode(protoPublic64.val.v))))

\* the body of create once the key pair is drawn
createWith(pair) ==
  LET asnPub == publicKeyToAsn1(pair.publicKey)
      asnPriv == privateKeyToAsn1(pair.privateKey)
      protoPublic64 == formatKey(asnPub, "Public")
      protoPrivate64 == formatKey(asnPriv, "Private")
  IN  IF ~IsOk(protoPublic64) THEN protoPublic64
      ELSE IF ~IsOk(protoPrivate64) THEN protoPrivate64
      ELSE LET bufProtoPub64 == Buf(Base64Decode(protoPublic64.val.v))
               bufProtoPriv64 == Buf(Base64Decode(protoPrivate64.val.v))
               mhId == Buf(multihashing(Base64Decode(protoPublic64.val.v)))
           IN  Ok(PeerId(mhId, bufProtoPriv64, bufProtoPub64))

\* bits = 0 stands for opts without bits
create(bits) ==
  {createWith(pair) :
     pair \in generateKeyPair(IF bits = 0 THEN DefaultBits ELSE bits, PublicExponent)}

\* createFromHexString that decodes its text as base64
createFromHexStringIn_base64(mode, str) ==
  LET buf == NewBuffer(mode, str, "base64")
  IN  IF IsOk(buf) THEN Ok(PeerId(buf.val, Undefined, Undefined)) ELSE buf

createFromHexStringIn(mode, str) ==
  LET buf == NewBuffer(mode, str, "hex")
  IN  IF IsOk(buf) THEN Ok(PeerId(buf.val, Undefined, Undefined)) ELSE buf

createFromHexString(str) == {createFromHexStringIn(mode, str) : mode \in HexModes}

createFromBytes(buf) == {Ok(PeerId(buf, Undefined, Undefined))}

createFromB58String(str) ==
  LET bytes == B58Decode(str.v)
  IN  {IF IsOk(bytes) THEN Ok(PeerId(Buf(bytes.val), Undefined, Undefined)) ELSE bytes}

createFromPubKey(pubKey) ==
  LET buf == NewBuffer("lenient", pubKey, "base64")
  IN  {IF IsOk(buf) THEN Ok(PeerId(Buf(multihashing(buf.val.v)), Null, pubKey)) ELSE buf}

\* createFromPrivKey that rebuilds the public key from the private exponent
createFromPrivateRecord_usesD(privKey, mpk) ==
  LET asnPriv == fromDer(mpk.Data.v)
      privateKey == IF IsOk(asnPriv) THEN privateKeyFromAsn1(asnPriv.val) ELSE asnPriv
  IN  IF ~IsOk(privateKey) THEN privateKey
      ELSE LET publicKey == setPublicKey(privateKey.val.n, privateKey.val.d)
               protoPublic64 == formatKey(publicKeyToAsn1(publicKey), "Public")
               bufProtoPub64 == Buf(Base64Decode(protoPublic64.val.v))
           IN  Ok(PeerId(Buf(multihashing(bufProtoPub64.v)), privKey, bufProtoPub64))

\* createFromPrivKey that stores the decoded record instead of its argument
createFromPrivateRecord_storesDecoded(privKey, mpk) ==
  LET asnPriv == fromDer(mpk.Data.v)
      privateKey == IF IsOk(asnPriv) THEN privateKeyFromAsn1(asnPriv.val) ELSE asnPriv
  IN  IF ~IsOk(privateKey) THEN privateKey
      ELSE LET publicKey == setPublicKey(privateKey.val.n, privateKey.val.e)
               protoPublic64 == formatKey(publicKeyToAsn1(publicKey), "Public")
               bufProtoPub64 == Buf(Base64Decode(protoPublic64.val.v))
           IN  Ok(PeerId(Buf(multihashing(bufProtoPub64.v)),
                         NewBuffer("lenient", privKey, "base64").val, bufProtoPub64))

\* the body of createFromPrivKey once the record is unwrapped
createFromPrivateRecord(privKey, mpk) ==
  LET asnPriv == fromDer(mpk.Data.v)
      privateKey == IF IsOk(asnPriv) THEN privateKeyFromAsn1(asnPriv.val) ELSE asnPriv
  IN  IF ~IsOk(privateKey) THEN privateKey
      ELSE LET publicKey == setPublicKey(privateKey.val.n, privateKey.val.e)
               asnPub == publicKeyToAsn1(publicKey)
               protoPublic64 == formatKey(asnPub, "Public")
           IN  IF ~IsOk(protoPublic64) THEN protoPublic64
               ELSE LET bufProtoPub64 == Buf(Base64Decode(protoPublic64.val.v))
                        mhId == Buf(multihashing(Base64Decode(protoPublic64.val.v)))
                    IN  Ok(PeerId(mhId, privKey, bufProtoPub64))

createFromPrivKey(privKey) ==
  LET buf == NewBuffer("lenient", privKey, "base64")
      mpk == IF IsOk(buf) THEN keyUnmarshal(buf.val) ELSE buf
  IN  {IF IsOk(mpk) THEN createFromPrivateRecord(privKey, mpk.val) ELSE mpk}

createFromJSONIn(mode, obj) ==
  LET id == NewBuffer(mode, obj.id, "hex")
      privKey == NewBuffer(mode, obj.privKey, "hex")
      pubKey == NewBuffer(mode, obj.pubKey, "hex")
  IN  IF ~IsOk(id) THEN id
      ELSE IF ~IsOk(privKey) THEN privKey
      ELSE IF ~IsOk(pubKey) THEN pubKey
      ELSE Ok(PeerId(id.val, privKey.val, pubKey.val))

createFromJSON(obj) == {createFromJSONIn(mode, obj) : mode \in HexModes}

(***************************************************************************)
(* The caller: it holds the identity the last successful factory call      *)
(* returned (held), the identity that call's input was taken from (prev),  *)
(* and the last call with its argument and outcome (last).                 *)
(***************************************************************************)
NoIdentity == [by |-> "none", obj |-> PeerId(Undefined, Undefined, Undefined)]

NoCall == [op |-> "none", arg |-> Undefined, out |-> Ok(Undefined)]

SampleBytes == {0, 255}

SampleHexChars == {"a", "g"}

SampleB58Chars == {"1", "z", "0"}

SampleBits == {0, 1024}

SampleJsonFields == {Str(<<"0", "a">>), Str(<<"z", "z">>)}

\* objects for createFromJSON; pubKey may be missing
SampleJson ==
  [id : SampleJsonFields, privKey : SampleJsonFields, pubKey : {Str(<<"f", "F">>), Undefined}]

SamplePayloadBytes == {0, 1, 18, 255}

SampleTypes == {"Public", "Private", "Secret"}

\* records that unwrap but hold no RSA private key
BrokenRecords ==
  {Buf(PbEncode([Type |-> RSA, Data |-> Buf(<<>>)])),
   Buf(PbEncode([Type |-> RSA, Data |-> Buf(<<48, 0>>)])),
   Str(Base64Encode(PbEncode([Type |-> RSA, Data |-> Buf(<<2, 1, 0>>)])))}

\* what the last call returned, when it was a call of op that succeeded
Returned(op) == IF last.op = op /\ IsOk(last.out) THEN {last.out.val} ELSE {}

\* the forms in which the held identity's private key can be handed on
HeldPrivKey ==
  IF IsBuf(held.obj.privKey)
  THEN {held.obj.privKey, Str(Base64Encode(held.obj.privKey.v))}
  ELSE IF IsStr(held.obj.privKey) THEN {held.obj.privKey}
  ELSE {}

HeldPubKey == IF IsBuf(held.obj.pubKey) THEN {held.obj.pubKey} ELSE {}

Init ==
  /\ held = NoIdentity
  /\ prev = NoIdentity
  /\ last = NoCall

\* A factory call: on success the caller holds the identity returned, on a
\* throw it keeps the one it had; prev is the identity the argument was taken
\* from, if it was taken from one.
Create ==
  \E bits \in SampleBits : \E out \in create(bits) :
    /\ last' = [op |-> "create", arg |-> bits, out |-> out]
    /\ held' = IF IsOk(out) THEN [by |-> "create", obj |-> out.val] ELSE held
    /\ prev' = NoIdentity

CreateFromHexString ==
  \E str \in {Str(s) : s \in SeqsUpTo(SampleHexChars, MaxStrLen)} \cup Returned("toHexString") :
    \E out \in createFromHexString(str) :
      /\ last' = [op |-> "createFromHexString", arg |-> str, out |-> out]
      /\ held' = IF IsOk(out) THEN [by |-> "createFromHexString", obj |-> out.val] ELSE held
      /\ prev' = IF str \in Returned("toHexString") THEN held ELSE NoIdentity

CreateFromBytes ==
  \E buf \in {Buf(b) : b \in SeqsUpTo(SampleBytes, MaxIdLen)} \cup Returned("toBytes") :
    \E out \in createFromBytes(buf) :
      /\ last' = [op |-> "createFromBytes", arg |-> buf, out |-> out]
      /\ held' = IF IsOk(out) THEN [by |-> "createFromBytes", obj |-> out.val] ELSE held
      /\ prev' = IF buf \in Returned("toBytes") THEN held ELSE NoIdentity

CreateFromB58String ==
  \E str \in {Str(s) : s \in SeqsUpTo(SampleB58Chars, MaxStrLen)} \cup Returned("toB58String") :
    \E out \in createFromB58String(str) :
      /\ last' = [op |-> "createFromB58String", arg |-> str, out |-> out]
      /\ held' = IF IsOk(out) THEN [by |-> "createFromB58String", obj |-> out.val] ELSE held
      /\ prev' = IF str \in Returned("toB58String") THEN held ELSE NoIdentity

CreateFromPubKey ==
  \E pubKey \in {Buf(b) : b \in SeqsUpTo(SampleBytes, 1)} \cup HeldPubKey :
    \E out \in createFromPubKey(pubKey) :
      /\ last' = [op |-> "createFromPubKey", arg |-> pubKey, out |-> out]
      /\ held' = IF IsOk(out) THEN [by |-> "createFromPubKey", obj |-> out.val] ELSE held
      /\ prev' = IF pubKey \in HeldPubKey THEN held ELSE NoIdentity

CreateFromPrivKey ==
  \E privKey \in BrokenRecords \cup HeldPrivKey :
    \E out \in createFromPrivKey(privKey) :
      /\ last' = [op |-> "createFromPrivKey", arg |-> privKey, out |-> out]
      /\ held' = IF IsOk(out) THEN [by |-> "createFromPrivKey", obj |-> out.val] ELSE held
      /\ prev' = IF privKey \in HeldPrivKey THEN held ELSE NoIdentity

CreateFromJSON ==
  \E obj \in SampleJson \cup Returned("toJSON") :
    \E out \in createFromJSON(obj) :
      /\ last' = [op |-> "createFromJSON", arg |-> obj, out |-> out]
      /\ held' = IF IsOk(out) THEN [by |-> "createFromJSON", obj |-> out.val] ELSE held
      /\ prev' = IF obj \in Returned("toJSON") THEN held ELSE NoIdentity

\* An accessor call on the held identity.
ToJSON ==
  /\ held.by # "none"
  /\ last' = [op |-> "toJSON", arg |-> Undefined, out |-> toJSON(held.obj)]
  /\ UNCHANGED <<held, prev>>

ToHexString ==
  /\ held.by # "none"
  /\ last' = [op |-> "toHexString", arg |-> Undefined, out |-> toHexString(held.obj)]
  /\ UNCHANGED <<held, prev>>

ToBytes ==
  /\ held.by # "none"
  /\ last' = [op |-> "toBytes", arg |-> Undefined, out |-> toBytes(held.obj)]
  /\ UNCHANGED <<held, prev>>

ToB58String ==
  /\ held.by # "none"
  /\ last' = [op |-> "toB58String", arg |-> Undefined, out |-> toB58String(held.obj)]
  /\ UNCHANGED <<held, prev>>

Next ==
  \/ Create
  \/ CreateFromHexString
  \/ CreateFromBytes
  \/ CreateFromB58String
  \/ CreateFromPubKey
  \/ CreateFromPrivKey
  \/ CreateFromJSON
  \/ ToJSON
  \/ ToHexString
  \/ ToBytes
  \/ ToB58String

Spec == Init /\ [][Next]_vars

(***************************************************************************)
(* The key codec on its own: keyMarshal, keyUnmarshal and formatKey        *)
(* applied to sampled arguments, the last call kept in last.               *)
(***************************************************************************)
SampleKeys ==
  UNION {{publicKeyToAsn1(pair.publicKey), privateKeyToAsn1(pair.privateKey)} :
           pair \in UNION {generateKeyPair(bits, PublicExponent) : bits \in {DefaultBits, 1024}}}

SamplePayloads == {Buf(b) : b \in SeqsUpTo(SamplePayloadBytes, MaxPayloadLen)}

KeyMarshal ==
  \E data \in SamplePayloads : \E type \in SampleTypes :
    /\ last' = [op |-> "keyMarshal", arg |-> [data |-> data, type |-> type],
                out |-> Ok(keyMarshal(data, type))]
    /\ UNCHANGED <<held, prev>>

\* on what keyMarshal last returned, or on sampled bytes
KeyUnmarshal ==
  \E key \in SamplePayloads \cup Returned("keyMarshal") :
    /\ last' = [op |-> "keyUnmarshal", arg |-> key, out |-> keyUnmarshal(key)]
    /\ UNCHANGED <<held, prev>>

FormatKey ==
  \E key \in SampleKeys : \E type \in SampleTypes :
    /\ last' = [op |-> "formatKey", arg |-> [key |-> key, type |-> type],
                out |-> formatKey(key, type)]
    /\ UNCHANGED <<held, prev>>

CodecNext ==
  \/ KeyMarshal
  \/ KeyUnmarshal
  \/ FormatKey

CodecSpec == Init /\ [][CodecNext]_vars

(***************************************************************************)
(* Properties.                                                             *)
(***************************************************************************)
KeyFactories == {"create", "createFromPubKey", "createFromPrivKey"}

\* the bytes a key field stands for: a Buffer's own, a base64 string's decoded
BytesOf(x) == IF IsBuf(x) THEN x.v ELSE Base64Decode(x.v)

ContainsNonHex(s) == \E i \in 1..Len(s) : HexVal(s[i]) < 0

\* the public key record createFromPrivKey is to derive from its argument:
\* modulus and public exponent of the wrapped private key, as DER, wrapped
DerivedPublicRecord(privKey) ==
  LET mpk == keyUnmarshal(NewBuffer("lenient", privKey, "base64").val).val
      key == privateKeyFromAsn1(fromDer(mpk.Data.v).val).val
  IN  Buf(PbEncode([Type |-> RSA,
                    Data |-> Buf(toDer(publicKeyToAsn1(setPublicKey(key.n, key.e))))]))

\* C1: an identity returned by create, createFromPubKey or createFromPrivKey
\* has id = multihash(sha2-256, bytes of its pubKey); after create and
\* createFromPrivKey that pubKey is a well-formed key record, so the hash
\* input is the encoded record.
C1_DerivationInvariant ==
  held.by \in KeyFactories =>
    /\ IsBuf(held.obj.pubKey)
    /\ held.obj.id = Buf(multihashing(held.obj.pubKey.v))
    /\ held.by # "createFromPubKey" => IsOk(keyUnmarshal(held.obj.pubKey))

\* C1 witness: create has returned an identity with a 34-byte id.
C1_Witness ==
  /\ held.by = "create"
  /\ last.op = "create"
  /\ Len(held.obj.id.v) = 34

\* C2: for an identity I returned by create, createFromPrivKey(I.privKey) and
\* createFromPubKey(I.pubKey) succeed with I's id; and createFromPubKey on the
\* public record createFromPrivKey derived succeeds with the same id.
C2_CrossPathConsistency ==
  /\ (prev.by = "create" /\ last.op \in {"createFromPrivKey", "createFromPubKey"})
       => IsOk(last.out) /\ held.obj.id = prev.obj.id
  /\ (prev.by = "createFromPrivKey" /\ last.op = "createFromPubKey")
       => IsOk(last.out) /\ held.obj.id = prev.obj.id

\* C2 witness: createFromPrivKey has rebuilt an identity from the private key
\* of one that create returned.
C2_Witness ==
  /\ prev.by = "create"
  /\ last.op = "createFromPrivKey"
  /\ last.arg = prev.obj.privKey
  /\ held.by = "createFromPrivKey"

\* C3: createFromJSON on the toJSON of a fully populated identity I succeeds
\* with id, privKey and pubKey bytes identical to I's.
C3_JsonRoundTrip ==
  (last.op = "createFromJSON" /\ prev.by # "none") =>
    /\ IsOk(last.out)
    /\ BytesOf(held.obj.id) = BytesOf(prev.obj.id)
    /\ BytesOf(held.obj.privKey) = BytesOf(prev.obj.privKey)
    /\ BytesOf(held.obj.pubKey) = BytesOf(prev.obj.pubKey)

\* C4: createFromHexString on the toHexString of any identity I succeeds with
\* I's id bytes and no key material.
C4_HexRoundTrip ==
  (last.op = "createFromHexString" /\ prev.by # "none") =>
    /\ IsOk(last.out)
    /\ toBytes(held.obj) = toBytes(prev.obj)
    /\ IsAbsent(held.obj.privKey)
    /\ IsAbsent(held.obj.pubKey)

\* C4 witness: the hex text of a generated identity's id has been read back.
C4_Witness ==
  /\ last.op = "createFromHexString"
  /\ prev.by = "create"
  /\ held.by = "createFromHexString"
  /\ Len(last.arg.v) = 68

\* C5: createFromB58String on the toB58String of any identity I succeeds with
\* I's id bytes.
C5_B58RoundTrip ==
  (last.op = "createFromB58String" /\ prev.by # "none") =>
    /\ IsOk(last.out)
    /\ toBytes(held.obj) = toBytes(prev.obj)

\* C5 witness: the base58 text of an id that starts with a zero byte has been
\* read back.
C5_Witness ==
  /\ last.op = "createFromB58String"
  /\ prev.by = "createFromBytes"
  /\ held.by = "createFromB58String"
  /\ Len(prev.obj.id.v) = 2
  /\ prev.obj.id.v[1] = 0

\* C6 as stated: keyUnmarshal(keyMarshal(payload, type)) returns (type, payload)
\* for type Public or Private.
C6_RoundTripReturnsType ==
  \A data \in SamplePayloads : \A type \in {"Public", "Private"} :
    (last.op = "keyUnmarshal" /\ last.arg = keyMarshal(data, type)) =>
      /\ IsOk(last.out)
      /\ KeyTypeName(last.out.val.Type) = type
      /\ last.out.val.Data = data

\* C6 as amended: keyUnmarshal(keyMarshal(payload, type)) returns the payload
\* byte for byte, the empty one included, with the RSA tag as its Type, for
\* type Public and for type Private alike.
C6_RoundTripReturnsRSA ==
  \A data \in SamplePayloads : \A type \in {"Public", "Private"} :
    (last.op = "keyUnmarshal" /\ last.arg = keyMarshal(data, type)) =>
      /\ IsOk(last.out)
      /\ last.out.val.Type = RSA
      /\ KeyTypeName(last.out.val.Type) = "RSA"
      /\ last.out.val.Data = data

\* C6 witness: the record of an empty payload has been unwrapped.
C6_Witness ==
  /\ last.op = "keyUnmarshal"
  /\ last.arg = keyMarshal(Buf(<<>>), "Private")
  /\ IsOk(last.out)
  /\ last.out.val.Data = Buf(<<>>)

\* C7: keyMarshal called with a type other than Public or Private does not
\* complete normally.
C7_EncodeRejectsUnknownType ==
  (last.op = "keyMarshal" /\ last.arg.type \notin {"Public", "Private"}) => ~IsOk(last.out)

\* C8: on an identity with privKey or pubKey absent toJSON throws, while
\* toBytes, toHexString and toB58String succeed.
C8_ToJSONFailsOnAbsentKey ==
  (held.by # "none" /\ (IsAbsent(held.obj.privKey) \/ IsAbsent(held.obj.pubKey))) =>
    /\ last.op = "toJSON" => ~IsOk(last.out)
    /\ last.op \in {"toBytes", "toHexString", "toB58String"} => IsOk(last.out)

\* C8 witness: toJSON has been called on the identity createFromPubKey returned.
C8_Witness ==
  /\ held.by = "createFromPubKey"
  /\ IsAbsent(held.obj.privKey)
  /\ last.op = "toJSON"
  /\ ~IsOk(last.out)

\* C9: createFromHexString on text with a non-hex character and
\* createFromB58String on text with a non-base58 character throw and return
\* no identity.
C9_TextConstructionAllOrNothing ==
  /\ (last.op = "createFromHexString" /\ ContainsNonHex(last.arg.v)) => ~IsOk(last.out)
  /\ (last.op = "createFromB58String" /\ ~ValidB58(last.arg.v)) => ~IsOk(last.out)

\* C10: on success createFromPrivKey returns its argument, as given, for
\* privKey and the public record derived from the private key's modulus and
\* public exponent for pubKey; createFromPubKey returns privKey absent and its
\* argument for pubKey.
C10_KeyFieldPopulation ==
  /\ (last.op = "createFromPrivKey" /\ IsOk(last.out)) =>
       /\ last.out.val.privKey = last.arg
       /\ last.out.val.pubKey = DerivedPublicRecord(last.arg)
  /\ (last.op = "createFromPubKey" /\ IsOk(last.out)) =>
       /\ IsAbsent(last.out.val.privKey)
       /\ last.out.val.pubKey = last.arg

\* C10 witness: createFromPrivKey has succeeded on base64 text.
C10_Witness ==
  /\ last.op = "createFromPrivKey"
  /\ IsOk(last.out)
  /\ IsStr(last.arg)
  /\ held.by = "createFromPrivKey"

====
